---- MODULE Spec2Model ----
(***************************************************************************)
(* API-key authentication of django-base-project:                          *)
(*   common/models.py          APIKey (save, generate_key, is_valid,        *)
(*                             is_ip_allowed, increment_usage,              *)
(*                             has_permission)                              *)
(*   common/authentication.py  APIKeyAuthentication, CombinedAuthentication *)
(*   common/admin.py           APIKeyAdmin (change form, save_model)        *)
(*   common/utils.py           EmailService (send_email,                    *)
(*                             send_welcome_email)                          *)
(*   config/settings.py        DEFAULT_AUTHENTICATION_CLASSES               *)
(*                                                                         *)
(* Text values (secrets, IP addresses, the allowed_ips field) are          *)
(* sequences of one-character strings, so that slicing, splitting and      *)
(* stripping are computed as Python computes them.  An optional value      *)
(* (a nullable column, a missing header) is <<>> for None and <<v>> for v. *)
(* The clock counts hours.                                                 *)
(***************************************************************************)
EXTENDS Integers, Sequences, FiniteSets, TLC

\* ------------------------------------------------------------------ bounds
NumRequests == 2     \* requests served, each by a thread of its own
MaxKeys == 1         \* rows of the api_keys table
MaxIssued == 2       \* rows of the table where issuance is examined
MaxTime == 1         \* last value of the clock
MaxMail == 2         \* calls of EmailService

\* ------------------------------------------------------- program constants
KeyLen == 64         \* generate_key: range(64)
PrefixLen == 8       \* save: self.key[:8]
OneHour == 1         \* check_rate_limit: timedelta(hours=1)

\* ------------------------------------------------------------ Python values
None == <<>>
Some(v) == <<v>>
IsNone(o) == o = <<>>
Val(o) == o[1]

Min(a, b) == IF a < b THEN a ELSE b

\* s[:n]
SliceTo(s, n) == SubSeq(s, 1, Min(n, Len(s)))

Whitespace == {" ", "\t", "\n"}

\* s.split(sep) for a one-character separator
RECURSIVE Split(_, _)
Split(s, sep) ==
    IF \E i \in 1..Len(s) : s[i] = sep
    THEN LET i == CHOOSE i \in 1..Len(s) :
                      s[i] = sep /\ \A j \in 1..(i - 1) : s[j] # sep
         IN  <<SubSeq(s, 1, i - 1)>> \o Split(SubSeq(s, i + 1, Len(s)), sep)
    ELSE <<s>>

\* s.strip()
RECURSIVE LStrip(_)
LStrip(s) == IF s # <<>> /\ Head(s) \in Whitespace THEN LStrip(Tail(s)) ELSE s
RECURSIVE RStrip(_)
RStrip(s) ==
    IF s # <<>> /\ s[Len(s)] \in Whitespace
    THEN RStrip(SubSeq(s, 1, Len(s) - 1)) ELSE s
Strip(s) == RStrip(LStrip(s))

\* s.split(): the runs of non-whitespace characters
RECURSIVE SplitWS(_)
SplitWS(s) ==
    LET t == LStrip(s)
    IN  IF t = <<>> THEN <<>>
        ELSE IF \E i \in 1..Len(t) : t[i] \in Whitespace
        THEN LET i == CHOOSE i \in 1..Len(t) :
                          /\ t[i] \in Whitespace
                          /\ \A j \in 1..(i - 1) : t[j] \notin Whitespace
             IN  <<SubSeq(t, 1, i - 1)>> \o SplitWS(SubSeq(t, i + 1, Len(t)))
        ELSE <<t>>

\* ---------------------------------------------------------------- the data
Users == {"u1", "u2"}

\* string.ascii_letters + string.digits
Alphabet ==
    <<"a","b","c","d","e","f","g","h","i","j","k","l","m",
      "n","o","p","q","r","s","t","u","v","w","x","y","z",
      "A","B","C","D","E","F","G","H","I","J","K","L","M",
      "N","O","P","Q","R","S","T","U","V","W","X","Y","Z",
      "0","1","2","3","4","5","6","7","8","9">>

\* s.lower() for ASCII text
Lower(s) ==
    [i \in 1..Len(s) |->
        IF \E n \in 27..52 : Alphabet[n] = s[i]
        THEN Alphabet[(CHOOSE n \in 27..52 : Alphabet[n] = s[i]) - 26]
        ELSE s[i]]

\* A byte that is not valid UTF-8, and b.decode(): None for UnicodeError.
InvalidByte == "0xFF"
decode(b) == IF \E i \in 1..Len(b) : b[i] = InvalidByte THEN None ELSE Some(b)

\* A secret whose first PrefixLen characters are a and whose others are b.
TwoPart(a, b, n) == [i \in 1..n |-> IF i <= PrefixLen THEN a ELSE b]

\* The outcomes of secrets.choice drawn here: two secrets with one prefix.
GeneratedKeys == {TwoPart(Alphabet[1], Alphabet[1], KeyLen),
                  TwoPart(Alphabet[1], Alphabet[2], KeyLen)}

\* Secrets a caller passes to APIKey(key=...).
SuppliedKey == TwoPart(Alphabet[27], Alphabet[62], KeyLen)
\* A secret no record has, with the prefix of the generated ones.
UnknownKey == TwoPart(Alphabet[1], Alphabet[3], KeyLen)

\* A secret no record has, with a prefix no record has.
UnknownKeyOther == TwoPart(Alphabet[2], Alphabet[3], KeyLen)

IP1 == <<"1","0",".","0",".","0",".","1">>
IP2 == <<"1","0",".","0",".","0",".","2">>
IP10 == <<"1","0",".","0",".","0",".","1","0">>

Methods == {"GET", "POST", "PUT", "PATCH", "DELETE", "HEAD", "OPTIONS"}

VARIABLES
    store,        \* api_keys table: sequence of rows, the index is the pk
    user_active,  \* users table: is_active of each user
    now,          \* timezone.now()
    worker,       \* each request: position, in-memory objects, outcome
    admin,        \* the admin change view: position and in-memory object
    issue,        \* the outcome of the last save() of a new APIKey
    mail          \* EmailService: the calls made and the messages delivered

vars == <<store, user_active, now, worker, admin, issue, mail>>

\* ------------------------------------------------------ common/models.py
Get(kw, f, default) == IF f \in DOMAIN kw THEN kw[f] ELSE default

\* APIKey(**kw): an unsaved instance, with the field defaults of the model.
\* A CharField or TextField without a default is the empty string.
\* APIKey with can_write defaulting to True.
APIKey_writable(kw) ==
    [pk |-> 0,
     key |-> Get(kw, "key", <<>>),
     prefix |-> Get(kw, "prefix", <<>>),
     user |-> kw.user,
     is_active |-> Get(kw, "is_active", TRUE),
     last_used |-> None,
     expires_at |-> Get(kw, "expires_at", None),
     can_read |-> Get(kw, "can_read", TRUE),
     can_write |-> Get(kw, "can_write", TRUE),
     can_delete |-> Get(kw, "can_delete", FALSE),
     allowed_ips |-> Get(kw, "allowed_ips", <<>>),
     request_count |-> 0,
     max_requests_per_hour |-> Get(kw, "max_requests_per_hour", None)]

APIKey(kw) ==
    [pk |-> 0,
     key |-> Get(kw, "key", <<>>),
     prefix |-> Get(kw, "prefix", <<>>),
     user |-> kw.user,
     is_active |-> Get(kw, "is_active", TRUE),
     last_used |-> None,
     expires_at |-> Get(kw, "expires_at", None),
     can_read |-> Get(kw, "can_read", TRUE),
     can_write |-> Get(kw, "can_write", FALSE),
     can_delete |-> Get(kw, "can_delete", FALSE),
     allowed_ips |-> Get(kw, "allowed_ips", <<>>),
     request_count |-> 0,
     max_requests_per_hour |-> Get(kw, "max_requests_per_hour", None)]

\* generate_key making secrets of 32 characters, hyphens among them.
generate_key_short == {[i \in 1..32 |-> IF i = 9 THEN "-" ELSE Alphabet[i]]}

\* APIKey.generate_key: 64 draws of secrets.choice(alphabet); the draws
\* modelled are those of GeneratedKeys.
generate_key == GeneratedKeys

\* save() generating a secret at every save.
save_prepare_regenerates(self, g) ==
    [self EXCEPT !.key = g, !.prefix = SliceTo(g, PrefixLen)]

\* APIKey.save, before super().save(): g is the value generate_key returns.
save_prepare(self, g) ==
    IF self.key = <<>>
    THEN [self EXCEPT !.key = g, !.prefix = SliceTo(g, PrefixLen)]
    ELSE self

\* A key column without the unique index.
UniqueViolation_unenforced(table, obj) == FALSE

\* key = CharField(unique=True): the INSERT the table refuses.
UniqueViolation(table, obj) == \E i \in 1..Len(table) : table[i].key = obj.key

\* super().save() of an unsaved instance: INSERT, the pk is assigned.
db_insert(table, obj) == Append(table, [obj EXCEPT !.pk = Len(table) + 1])

\* super().save() of a saved instance: UPDATE of every column.
db_update(table, obj) == [table EXCEPT ![obj.pk] = obj]

\* The usage save writing every column of the row.
db_update_usage_all_columns(table, obj) == [table EXCEPT ![obj.pk] = obj]

\* super().save(update_fields=['request_count', 'last_used'])
db_update_usage(table, obj) ==
    [table EXCEPT ![obj.pk].request_count = obj.request_count,
                  ![obj.pk].last_used = obj.last_used]

\* is_valid without the expiry test.
is_valid_ignores_expiry(self, t) == self.is_active

\* is_valid with the expiry compared by <= instead of <.
is_valid_expires_at_now(self, t) ==
    IF ~self.is_active THEN FALSE
    ELSE IF ~IsNone(self.expires_at) /\ Val(self.expires_at) <= t THEN FALSE
    ELSE TRUE

\* APIKey.is_valid at time t
is_valid(self, t) ==
    IF ~self.is_active THEN FALSE
    ELSE IF ~IsNone(self.expires_at) /\ Val(self.expires_at) < t THEN FALSE
    ELSE TRUE

\* is_ip_allowed without the strip() of the entries.
is_ip_allowed_unstripped(self, ip_address) ==
    IF self.allowed_ips = <<>> THEN TRUE
    ELSE LET allowed_ips == Split(self.allowed_ips, ",")
         IN  /\ ~IsNone(ip_address)
             /\ \E i \in 1..Len(allowed_ips) : allowed_ips[i] = Val(ip_address)

\* APIKey.is_ip_allowed; ip_address is optional (REMOTE_ADDR may be absent)
is_ip_allowed(self, ip_address) ==
    IF self.allowed_ips = <<>> THEN TRUE
    ELSE LET parts == Split(self.allowed_ips, ",")
             allowed_ips == [i \in 1..Len(parts) |-> Strip(parts[i])]
         IN  /\ ~IsNone(ip_address)
             /\ \E i \in 1..Len(allowed_ips) : allowed_ips[i] = Val(ip_address)

\* has_permission with PUT gated by can_read.
has_permission_put_reads(self, action) ==
    CASE action = "GET" -> self.can_read
      [] action = "POST" -> self.can_write
      [] action = "PUT" -> self.can_read
      [] action = "PATCH" -> self.can_write
      [] action = "DELETE" -> self.can_delete
      [] OTHER -> FALSE

\* APIKey.has_permission: permission_map.get(action, False)
has_permission(self, action) ==
    CASE action = "GET" -> self.can_read
      [] action = "POST" -> self.can_write
      [] action = "PUT" -> self.can_write
      [] action = "PATCH" -> self.can_write
      [] action = "DELETE" -> self.can_delete
      [] OTHER -> FALSE

\* increment_usage stamping last_used and leaving the counter.
increment_usage_stamp_only(self, t) == [self EXCEPT !.last_used = Some(t)]

\* APIKey.increment_usage, the two assignments before save()
increment_usage_assign(self, t) ==
    [self EXCEPT !.request_count = self.request_count + 1,
                 !.last_used = Some(t)]

\* ---------------------------------------------- common/authentication.py
\* get_client_ip reading REMOTE_ADDR only.
get_client_ip_remote_only(meta) == meta.remote

\* APIKeyAuthentication.get_client_ip; META is [xff, remote], both optional
get_client_ip(meta) ==
    IF ~IsNone(meta.xff) /\ Val(meta.xff) # <<>>
    THEN Some(Split(Val(meta.xff), ",")[1])
    ELSE meta.remote

\* check_rate_limit comparing the count with the limit within the hour.
check_rate_limit_enforced(api_key, t) ==
    IF IsNone(api_key.max_requests_per_hour)
       \/ Val(api_key.max_requests_per_hour) = 0
    THEN TRUE
    ELSE LET one_hour_ago == t - OneHour
         IN  IF ~IsNone(api_key.last_used)
                /\ Val(api_key.last_used) > one_hour_ago
             THEN api_key.request_count < Val(api_key.max_requests_per_hour)
             ELSE TRUE

\* APIKeyAuthentication.check_rate_limit at time t
check_rate_limit(api_key, t) ==
    IF IsNone(api_key.max_requests_per_hour)
       \/ Val(api_key.max_requests_per_hour) = 0
    THEN TRUE
    ELSE LET one_hour_ago == t - OneHour
         IN  IF ~IsNone(api_key.last_used)
                /\ Val(api_key.last_used) > one_hour_ago
             THEN TRUE
             ELSE TRUE

\* The messages of the AuthenticationFailed exceptions.
MsgNotFound == <<"Invalid API key.">>
MsgInvalid == <<"API key is inactive or expired.">>
MsgUserInactive == <<"User inactive or deleted.">>
MsgIP == <<"IP address not allowed for this API key.">>
MsgMethod(m) == <<"API key does not have permission for ", m, " requests.">>
MsgRate == <<"Rate limit exceeded for this API key.">>

NoResult == [kind |-> "none"]
Failed(msg) == [kind |-> "AuthenticationFailed", detail |-> msg]
Returned(u, k) == [user |-> u, api_key |-> k, kind |-> "return"]

\* The checks with the IP and method checks ahead of is_valid.
credential_checks_policy_first(api_key, usr, meta, method, t) ==
    IF ~is_ip_allowed(api_key, get_client_ip(meta)) THEN Failed(MsgIP)
    ELSE IF ~has_permission(api_key, method) THEN Failed(MsgMethod(method))
    ELSE IF ~is_valid(api_key, t) THEN Failed(MsgInvalid)
    ELSE IF ~usr.is_active THEN Failed(MsgUserInactive)
    ELSE IF ~check_rate_limit(api_key, t) THEN Failed(MsgRate)
    ELSE NoResult

\* The checks reduced to is_valid.
credential_checks_validity_only(api_key, usr, meta, method, t) ==
    IF ~is_valid(api_key, t) THEN Failed(MsgInvalid) ELSE NoResult

\* The checks without the test of the owner.
credential_checks_skips_owner(api_key, usr, meta, method, t) ==
    IF ~is_valid(api_key, t) THEN Failed(MsgInvalid)
    ELSE IF ~is_ip_allowed(api_key, get_client_ip(meta)) THEN Failed(MsgIP)
    ELSE IF ~has_permission(api_key, method) THEN Failed(MsgMethod(method))
    ELSE IF ~check_rate_limit(api_key, t) THEN Failed(MsgRate)
    ELSE NoResult

\* authenticate_credentials, the checks between the lookup and the usage
\* update: the exception raised, or NoResult when every check passes.
\* usr is the related user loaded with the key; t is timezone.now().
credential_checks(api_key, usr, meta, method, t) ==
    IF ~is_valid(api_key, t) THEN Failed(MsgInvalid)
    ELSE IF ~usr.is_active THEN Failed(MsgUserInactive)
    ELSE IF ~is_ip_allowed(api_key, get_client_ip(meta)) THEN Failed(MsgIP)
    ELSE IF ~has_permission(api_key, method) THEN Failed(MsgMethod(method))
    ELSE IF ~check_rate_limit(api_key, t) THEN Failed(MsgRate)
    ELSE NoResult

\* The messages of the header errors of authenticate.
MsgNoCredentials == <<"Invalid API key header. No credentials provided.">>
MsgSpaces ==
    <<"Invalid API key header. Credentials string should not contain spaces.">>
MsgInvalidCharacters ==
    <<"Invalid API key header. Credentials string should not contain invalid characters.">>

\* authenticate returning None, and authenticate reaching the call of
\* authenticate_credentials(key, request).
ReturnedNone == [kind |-> "return None"]
Credentials(key) == [key |-> key, kind |-> "credentials"]

\* APIKeyAuthentication.keyword
keyword == <<"A","p","i","K","e","y">>

\* get_authorization_header(request): the bytes of the Authorization
\* header, b'' when the request has none.
get_authorization_header(header) == IF IsNone(header) THEN <<>> ELSE Val(header)

\* authenticate accepting any number of credential tokens and using the
\* first.
authenticate_first_token(header) ==
    LET auth_header == SplitWS(get_authorization_header(header))
    IN  IF auth_header = <<>> \/ Lower(auth_header[1]) # Lower(keyword)
        THEN ReturnedNone
        ELSE IF Len(auth_header) = 1 THEN Failed(MsgNoCredentials)
        ELSE IF IsNone(decode(auth_header[2]))
        THEN Failed(MsgInvalidCharacters)
        ELSE Credentials(Val(decode(auth_header[2])))

\* APIKeyAuthentication.authenticate, lines 26-42: the header is split and
\* checked, up to the call of authenticate_credentials.
authenticate(header) ==
    LET auth_header == SplitWS(get_authorization_header(header))
    IN  IF auth_header = <<>> \/ Lower(auth_header[1]) # Lower(keyword)
        THEN ReturnedNone
        ELSE IF Len(auth_header) = 1 THEN Failed(MsgNoCredentials)
        ELSE IF Len(auth_header) > 2 THEN Failed(MsgSpaces)
        ELSE IF IsNone(decode(auth_header[2]))
        THEN Failed(MsgInvalidCharacters)
        ELSE Credentials(Val(decode(auth_header[2])))

\* A lookup that matches the stored prefix instead of the secret.
lookup_by_prefix(table, key) ==
    {i \in 1..Len(table) : table[i].prefix = SliceTo(key, PrefixLen)}

\* APIKey.objects.select_related('user').get(key=key): the pks matching
lookup(table, key) == {i \in 1..Len(table) : table[i].key = key}

\* JWTAuthentication.authenticate of rest_framework_simplejwt, as
\* CombinedAuthentication calls it.  verdict is the library's judgement of
\* the token: None without a Bearer header, AuthenticationFailed for a
\* header of more or fewer than two parts or a token it rejects, and the
\* pair (user, token) for a token it accepts.
Bearer == <<"B","e","a","r","e","r">>
MsgTokenHeader == <<"Authorization header must contain two space-delimited values">>
MsgTokenInvalid == <<"Given token not valid for any token type">>
ReturnedToken(u, token) == [user |-> u, kind |-> "return", token |-> token]
TokenUser == "u1"
Verdicts == {"valid", "invalid"}

JWTAuthentication(header, verdict) ==
    LET parts == SplitWS(get_authorization_header(header))
    IN  IF parts = <<>> \/ parts[1] # Bearer THEN ReturnedNone
        ELSE IF Len(parts) # 2 THEN Failed(MsgTokenHeader)
        ELSE IF verdict = "valid" THEN ReturnedToken(TokenUser, parts[2])
        ELSE Failed(MsgTokenInvalid)

\* CombinedAuthentication running the API-key phase whatever the token
\* phase returned.
CombinedAuthentication_key_only(header, verdict) == authenticate(header)

\* CombinedAuthentication.authenticate, up to the call of
\* authenticate_credentials: the result of the token phase if it is a
\* pair, else (None, or AuthenticationFailed caught) the API-key phase.
CombinedAuthentication(header, verdict) ==
    LET result == JWTAuthentication(header, verdict)
    IN  IF result.kind = "return" THEN result ELSE authenticate(header)

\* REST_FRAMEWORK['DEFAULT_AUTHENTICATION_CLASSES']
DEFAULT_AUTHENTICATION_CLASSES ==
    <<"CombinedAuthentication", "JWTAuthentication",
      "APIKeyAuthentication", "SessionAuthentication">>

\* authenticate of one class of the list; the requests carry no session
\* cookie, so that SessionAuthentication returns None.
Authenticator(class, header, verdict) ==
    CASE class = "CombinedAuthentication" -> CombinedAuthentication(header, verdict)
      [] class = "JWTAuthentication" -> JWTAuthentication(header, verdict)
      [] class = "APIKeyAuthentication" -> authenticate(header)
      [] OTHER -> ReturnedNone

\* The authenticators of classes from the i-th on, tried in order: the
\* first pair returned or exception raised ends the authentication, and
\* None passes the request to the next class.
RECURSIVE perform_authentication(_, _, _, _)
perform_authentication(classes, i, header, verdict) ==
    IF i > Len(classes) THEN ReturnedNone
    ELSE LET r == Authenticator(classes[i], header, verdict)
         IN  IF r = ReturnedNone
             THEN perform_authentication(classes, i + 1, header, verdict)
             ELSE r

\* ------------------------------------------------------------- the state
Requests == 1..NumRequests

NoRow == [pk |-> 0]
NoUser == [is_active |-> FALSE, id |-> ""]
NoMeta == [remote |-> None, xff |-> None]

\* The outcome of the save() of a new APIKey whose secret is key.
NoIssue == [key |-> <<>>, kind |-> "none"]
Saved(key) == [key |-> key, kind |-> "saved"]
IntegrityError(key) == [key |-> key, kind |-> "IntegrityError"]

\* A request not yet received.
Idle ==
    [key |-> <<>>, user |-> NoUser, meta |-> NoMeta, api_key |-> NoRow,
     method |-> "", header |-> None, result |-> NoResult,
     classes |-> <<>>, pc |-> "idle", jwt |-> "", lookups |-> 0,
     db_errors |-> 0, done_at |-> 0]

\* ------------------------------------------------------- common/utils.py
\* settings.DEFAULT_FROM_EMAIL
DEFAULT_FROM_EMAIL == "noreply@yourcompany.com"

\* The classes caught by "except Exception": what a mail backend raises.
Exception == {"Exception", "SMTPException", "ConnectionRefusedError"}

\* What the mail backend does with a call: it completes or it raises.
Backends == {"ok"} \cup Exception

\* django.core.mail.send_mail with fail_silently=False: a message without
\* recipients is not handed to the backend and 0 is returned.
send_mail(subject, message, from_email, recipient_list, backend) ==
    LET msg == [subject |-> subject, message |-> message,
                from_email |-> from_email, to |-> recipient_list]
    IN  IF recipient_list = <<>>
        THEN [kind |-> "return", value |-> 0, sent |-> <<>>]
        ELSE IF backend = "ok"
        THEN [kind |-> "return", value |-> 1, sent |-> <<msg>>]
        ELSE [kind |-> "raise", sent |-> <<>>, exception |-> backend]

\* send_email without the except clause.
send_email_unhandled(subject, message, recipient_list, from_email, backend) ==
    LET sender == IF IsNone(from_email) THEN DEFAULT_FROM_EMAIL
                  ELSE Val(from_email)
        r == send_mail(subject, message, sender, recipient_list, backend)
    IN  IF r.kind = "raise"
        THEN [result |-> [kind |-> "raise", exception |-> r.exception],
              sent |-> r.sent]
        ELSE [result |-> [kind |-> "return", value |-> TRUE], sent |-> r.sent]

\* EmailService.send_email
send_email(subject, message, recipient_list, from_email, backend) ==
    LET sender == IF IsNone(from_email) THEN DEFAULT_FROM_EMAIL
                  ELSE Val(from_email)
        r == send_mail(subject, message, sender, recipient_list, backend)
    IN  IF r.kind = "raise" /\ r.exception \in Exception
        THEN [result |-> [kind |-> "return", value |-> FALSE], sent |-> r.sent]
        ELSE IF r.kind = "raise"
        THEN [result |-> [kind |-> "raise", exception |-> r.exception],
              sent |-> r.sent]
        ELSE [result |-> [kind |-> "return", value |-> TRUE], sent |-> r.sent]

\* The text of the welcome message: the f-string around user.first_name.
WelcomeMessage(user) ==
    <<"Hello ", user.first_name,
      ", Welcome to our platform! We're excited to have you on board.",
      " Best regards, The Team">>

\* EmailService.send_welcome_email
send_welcome_email(user, backend) ==
    LET subject == "Welcome to our platform!"
        message == WelcomeMessage(user)
    IN  send_email(subject, message, <<user.email>>, None, backend)

\* No call of EmailService yet.
NoMail == [calls |-> <<>>, outbox |-> <<>>]

Init ==
    /\ store = <<>>
    /\ user_active = [u \in Users |-> TRUE]
    /\ now = 0
    /\ worker = [w \in Requests |-> Idle]
    /\ admin = [obj |-> NoRow, pc |-> "idle"]
    /\ issue = NoIssue
    /\ mail = NoMail

\* ------------------------------------------------------------ the inputs
\* "10.0.0.1" and "10.0.0.1, 10.0.0.2"
AllowOne == IP1
AllowTwo == IP1 \o <<",", " ">> \o IP2

\* Creation as the admin add form does it: the secret is left to save().
KwGenerated ==
    {[user |-> "u1", max_requests_per_hour |-> m] : m \in {None, Some(1)}}
\* Creation by a caller that passes the secret: APIKey(user=u, key=k).
KwSupplied == {[key |-> SuppliedKey, user |-> "u2"]}

\* Secrets presented, and the META of the requests.
PresentedKeys == {store[i].key : i \in 1..Len(store)} \cup {UnknownKey}
Direct(ip) == [remote |-> Some(ip), xff |-> None]

\* Authorization headers: the scheme, the separator, the credentials.
Header(scheme, sep, credentials) == Some(scheme \o sep \o credentials)
\* "ApiKey <k>"
ExactHeader(k) == Header(keyword, <<" ">>, k)
\* "apikey <k>", "ApiKey  <k>", "ApiKey<TAB><k>", " ApiKey <k> "
LooseHeaders(k) ==
    {Header(Lower(keyword), <<" ">>, k),
     Header(keyword, <<" ", " ">>, k),
     Header(keyword, <<"\t">>, k),
     Header(<<" ">> \o keyword, <<" ">>, k \o <<" ">>)}
\* "ApiKey" and "ApiKey "
NoCredentialHeaders == {Some(keyword), Header(keyword, <<" ">>, <<>>)}
\* "ApiKey <k> <k>" and "ApiKey <k> x"
TwoCredentialHeaders(k) ==
    {Header(keyword, <<" ">>, k \o <<" ">> \o k),
     Header(keyword, <<" ">>, k \o <<" ", "x">>)}
\* "ApiKey <k>" with the first byte of k not valid UTF-8
UndecodableHeader(k) == Header(keyword, <<" ">>, [k EXCEPT ![1] = InvalidByte])
\* "Bearer <k>"
BearerHeader(k) == Header(Bearer, <<" ">>, k)

\* The headers presented with the secrets of ks: none, and those above.
Headers(ks) ==
    {None} \cup NoCredentialHeaders
    \cup UNION {{ExactHeader(k), UndecodableHeader(k), BearerHeader(k)}
                   \cup LooseHeaders(k) \cup TwoCredentialHeaders(k) : k \in ks}

\* ------------------------------------------------------------ the actions
\* The clock advances.
Tick ==
    /\ now < MaxTime
    /\ now' = now + 1
    /\ UNCHANGED <<store, user_active, worker, admin, issue, mail>>

\* APIKey(**kw).save(): generate the secret if none was given, then INSERT;
\* the unique index on key refuses a duplicate (IntegrityError) and the
\* table is left as it was.  The table holds at most cap rows.
CreateKey(kw, g, cap) ==
    /\ Len(store) < cap
    /\ LET obj == save_prepare(APIKey(kw), g)
       IN  IF UniqueViolation(store, obj)
           THEN /\ UNCHANGED store
                /\ issue' = IntegrityError(obj.key)
           ELSE /\ store' = db_insert(store, obj)
                /\ issue' = Saved(obj.key)
    /\ UNCHANGED <<user_active, now, worker, admin, mail>>

\* The admin change view loads the object of the form.
AdminLoad(pk) ==
    /\ admin.pc = "idle"
    /\ pk \in 1..Len(store)
    /\ admin' = [obj |-> store[pk], pc |-> "form"]
    /\ UNCHANGED <<store, user_active, now, worker, issue, mail>>

\* The admin change view applies the form (key, prefix, request_count and
\* last_used are read-only) and calls save_model: obj.save(), every column.
AdminSave(active, g) ==
    /\ admin.pc = "form"
    /\ LET obj == save_prepare([admin.obj EXCEPT !.is_active = active], g)
       IN  store' = db_update(store, obj)
    /\ admin' = [obj |-> NoRow, pc |-> "idle"]
    /\ UNCHANGED <<user_active, now, worker, issue, mail>>

\* authenticate_credentials, lines 50-78, for the request req of thread w:
\* the lookup by secret, with the related user, and the checks on the
\* object loaded.
authenticate_credentials(w, req, key) ==
    LET found == lookup(store, key)
        q == [req EXCEPT !.key = key, !.lookups = req.lookups + 1]
    IN  IF found = {}
        THEN worker' = [worker EXCEPT ![w] =
                 [q EXCEPT !.pc = "done", !.result = Failed(MsgNotFound)]]
        ELSE \E pk \in found :
               LET api_key == store[pk]
                   usr == [is_active |-> user_active[api_key.user],
                           id |-> api_key.user]
                   r == credential_checks(api_key, usr, q.meta, q.method, now)
               IN  worker' = [worker EXCEPT ![w] =
                       IF r = NoResult
                       THEN [q EXCEPT !.pc = "increment",
                                      !.api_key = api_key, !.user = usr]
                       ELSE [q EXCEPT !.pc = "done", !.result = r]]

\* A request with a well-formed ApiKey header whose credential is key:
\* authenticate_credentials(key, request).  Requests are numbered in the
\* order they are received.
Authenticate(w, key, meta, method) ==
    /\ worker[w].pc = "idle"
    /\ \A v \in Requests : v < w => worker[v].pc # "idle"
    /\ authenticate_credentials(w,
           [Idle EXCEPT !.meta = meta, !.method = method, !.done_at = now],
           key)
    /\ UNCHANGED <<store, user_active, now, admin, issue, mail>>

\* APIKeyAuthentication.authenticate for a request whose Authorization
\* header is header: None is returned, a header error is raised, or
\* authenticate_credentials runs with the credential decoded.
APIKeyAuthenticate(w, header, meta, method) ==
    /\ worker[w].pc = "idle"
    /\ \A v \in Requests : v < w => worker[v].pc # "idle"
    /\ LET req == [Idle EXCEPT !.header = header, !.meta = meta,
                               !.method = method, !.done_at = now]
           parsed == authenticate(header)
       IN  IF parsed.kind = "credentials"
           THEN authenticate_credentials(w, req, parsed.key)
           ELSE worker' = [worker EXCEPT ![w] =
                    [req EXCEPT !.pc = "done", !.result = parsed]]
    /\ UNCHANGED <<store, user_active, now, admin, issue, mail>>

\* A request to a view whose authentication classes are classes, with the
\* Authorization header header, whose token the JWT library judges as
\* verdict: the outcome of the first class that does not return None, the
\* API-key phase going on to authenticate_credentials.
ChainAuthenticate(w, classes, header, verdict, meta, method) ==
    /\ worker[w].pc = "idle"
    /\ \A v \in Requests : v < w => worker[v].pc # "idle"
    /\ LET req == [Idle EXCEPT !.classes = classes, !.header = header,
                               !.jwt = verdict, !.meta = meta,
                               !.method = method, !.done_at = now]
           r == perform_authentication(classes, 1, header, verdict)
       IN  IF r.kind = "credentials"
           THEN authenticate_credentials(w, req, r.key)
           ELSE worker' = [worker EXCEPT ![w] =
                    [req EXCEPT !.pc = "done", !.result = r]]
    /\ UNCHANGED <<store, user_active, now, admin, issue, mail>>

\* The outcome of a request when the database raises during op, the
\* principal being returned all the same.
store_error_fail_open(req, op) == Returned(req.user, req.api_key)

\* The outcome of a request when the database raises (OperationalError)
\* during op: authenticate_credentials catches APIKey.DoesNotExist only and
\* CombinedAuthentication catches AuthenticationFailed only, so that the
\* exception leaves the authentication.
store_error(req, op) ==
    [kind |-> "raise", exception |-> "OperationalError", during |-> op]

\* A request as ChainAuthenticate serves it, whose lookup query raises.
LookupFails(w, classes, header, verdict, meta, method) ==
    /\ worker[w].pc = "idle"
    /\ \A v \in Requests : v < w => worker[v].pc # "idle"
    /\ LET req == [Idle EXCEPT !.classes = classes, !.header = header,
                               !.jwt = verdict, !.meta = meta,
                               !.method = method, !.done_at = now]
           r == perform_authentication(classes, 1, header, verdict)
       IN  /\ r.kind = "credentials"
           /\ worker' = [worker EXCEPT ![w] =
                  [req EXCEPT !.key = r.key, !.lookups = 1,
                              !.db_errors = 1, !.pc = "done",
                              !.result = store_error(req, "lookup")]]
    /\ UNCHANGED <<store, user_active, now, admin, issue, mail>>

\* increment_usage, line 82, when the UPDATE raises: nothing is written.
SaveUsageFails(w) ==
    /\ worker[w].pc = "save"
    /\ worker' = [worker EXCEPT ![w].api_key = NoRow, ![w].pc = "done",
                      ![w].db_errors = 1, ![w].done_at = now,
                      ![w].result = store_error(worker[w], "save")]
    /\ UNCHANGED <<store, user_active, now, admin, issue, mail>>

\* increment_usage, lines 80-81: the in-memory counter and timestamp.
IncrementUsage(w) ==
    /\ worker[w].pc = "increment"
    /\ worker' = [worker EXCEPT
                      ![w].api_key = increment_usage_assign(worker[w].api_key, now),
                      ![w].pc = "save"]
    /\ UNCHANGED <<store, user_active, now, admin, issue, mail>>

\* increment_usage, line 82, and the return of authenticate_credentials.
SaveUsage(w, g) ==
    /\ worker[w].pc = "save"
    /\ LET obj == save_prepare(worker[w].api_key, g)
       IN  /\ store' = db_update_usage(store, obj)
           /\ worker' = [worker EXCEPT ![w].api_key = NoRow, ![w].pc = "done",
                             ![w].done_at = now,
                             ![w].result = Returned(worker[w].user, obj)]
    /\ UNCHANGED <<user_active, now, admin, issue, mail>>

\* The steps of the requests of R, with META drawn from metas and the
\* method from methods.
Serve(R, metas, methods) ==
    \/ \E w \in R, k \in PresentedKeys, meta \in metas, m \in methods :
           Authenticate(w, k, meta, m)
    \/ \E w \in R : IncrementUsage(w)
    \/ \E w \in R, g \in generate_key : SaveUsage(w, g)

\* Key creation.
Create ==
    \E kw \in KwGenerated \cup KwSupplied, g \in generate_key :
        CreateKey(kw, g, MaxKeys)

\* The admin change view.
Change ==
    \/ \E pk \in 1..MaxKeys : AdminLoad(pk)
    \/ \E b \in BOOLEAN, g \in generate_key : AdminSave(b, g)

\* The service: keys are created while NumRequests requests are served
\* concurrently.
Next ==
    \/ Tick
    \/ Create
    \/ Serve(Requests, {Direct(IP1)}, {"GET"})

Spec == Init /\ [][Next]_vars

\* Administration: keys are created and changed in the admin while one
\* request is served.
AdminNext ==
    \/ Tick
    \/ Create
    \/ Change
    \/ Serve({1}, {Direct(IP1)}, {"GET"})

AdminSpec == Init /\ [][AdminNext]_vars

\* Issuance: up to MaxIssued keys are created, by callers that leave the
\* secret to save() and by callers that pass it, while one request is served.
Issue ==
    \E kw \in KwGenerated \cup KwSupplied, g \in generate_key :
        CreateKey(kw, g, MaxIssued)

IssueNext ==
    \/ Tick
    \/ Issue
    \/ Serve({1}, {Direct(IP1)}, {"GET"})

IssueSpec == Init /\ [][IssueNext]_vars

\* Headers: keys are created while one request, with any of the
\* Authorization headers drawn, is served by APIKeyAuthentication.
ServeHeader(R, headers, metas, methods) ==
    \/ \E w \in R, h \in headers, meta \in metas, m \in methods :
           APIKeyAuthenticate(w, h, meta, m)
    \/ \E w \in R : IncrementUsage(w)
    \/ \E w \in R, g \in generate_key : SaveUsage(w, g)

HeaderNext ==
    \/ Tick
    \/ Create
    \/ ServeHeader({1}, Headers(PresentedKeys \cup {UnknownKeyOther}),
                   {Direct(IP1)}, {"GET"})

HeaderSpec == Init /\ [][HeaderNext]_vars

\* The chain: keys are created while one request is served by a view with
\* CombinedAuthentication alone or with the default classes of the settings.
AuthenticationClasses == {<<"CombinedAuthentication">>, DEFAULT_AUTHENTICATION_CLASSES}

ServeChain(R, metas, methods) ==
    \/ \E w \in R, c \in AuthenticationClasses, h \in Headers(PresentedKeys),
          v \in Verdicts, meta \in metas, m \in methods :
           ChainAuthenticate(w, c, h, v, meta, m)
    \/ \E w \in R : IncrementUsage(w)
    \/ \E w \in R, g \in generate_key : SaveUsage(w, g)

ChainNext ==
    \/ Tick
    \/ Create
    \/ ServeChain({1}, {Direct(IP1)}, {"GET"})

ChainSpec == Init /\ [][ChainNext]_vars

\* Outage: as the chain, with a database that may raise at the lookup or
\* at the usage update of the request.
Outage(R, metas, methods) ==
    \/ \E w \in R, c \in AuthenticationClasses, h \in Headers(PresentedKeys),
          v \in Verdicts, meta \in metas, m \in methods :
           LookupFails(w, c, h, v, meta, m)
    \/ \E w \in R : SaveUsageFails(w)

OutageNext ==
    \/ Tick
    \/ Create
    \/ ServeChain({1}, {Direct(IP1)}, {"GET"})
    \/ Outage({1}, {Direct(IP1)}, {"GET"})

OutageSpec == Init /\ [][OutageNext]_vars

\* ------------------------------------------- one request against any key
\* The configurations of a key row, as the admin forms can set them.
KwAny ==
    {[user |-> "u1", is_active |-> a, expires_at |-> e,
      can_read |-> r, can_write |-> wr, can_delete |-> d,
      allowed_ips |-> ips, max_requests_per_hour |-> m] :
        a \in BOOLEAN, e \in {None, Some(0), Some(1)},
        r \in BOOLEAN, wr \in BOOLEAN, d \in BOOLEAN,
        ips \in {<<>>, AllowOne, AllowTwo},
        m \in {None, Some(0), Some(1)}}

Metas == {Direct(IP1), Direct(IP2), Direct(IP10)}

\* The table holds one key of any configuration, of an owner who is active
\* or not; no request has been received.
PolicyInit ==
    /\ \E kw \in KwAny, g \in generate_key :
           store = db_insert(<<>>, save_prepare(APIKey(kw), g))
    /\ \E b \in BOOLEAN : user_active = [u \in Users |-> b]
    /\ now = 0
    /\ worker = [w \in Requests |-> Idle]
    /\ admin = [obj |-> NoRow, pc |-> "idle"]
    /\ issue = Saved(store[1].key)
    /\ mail = NoMail

PolicyNext ==
    \/ Tick
    \/ Serve({1}, Metas, Methods)

PolicySpec == PolicyInit /\ [][PolicyNext]_vars

\* ------------------------------------ one request, header and META, any step
\* The key created without field values, and the configurations that
\* differ from it in one field.
KwDefault == [user |-> "u1"]
KwDefaults ==
    [user |-> "u1", is_active |-> TRUE, expires_at |-> None,
     can_read |-> TRUE, can_write |-> FALSE, can_delete |-> FALSE,
     allowed_ips |-> <<>>, max_requests_per_hour |-> None]
KwSome ==
    {KwDefault}
    \cup {kw \in KwAny :
            Cardinality({f \in DOMAIN kw : kw[f] # KwDefaults[f]}) = 1}

\* META with X-Forwarded-For: xff is the header, remote is REMOTE_ADDR.
Forwarded(xff, remote) == [remote |-> Some(remote), xff |-> Some(xff)]
\* "10.0.0.1,10.0.0.2" from 10.0.0.10; "10.0.0.2, 10.0.0.1" from 10.0.0.1;
\* an empty header from 10.0.0.1 and from 10.0.0.2; no header.
RequestMetas ==
    {Forwarded(IP1 \o <<",">> \o IP2, IP10),
     Forwarded(IP2 \o <<",", " ">> \o IP1, IP1),
     Forwarded(<<>>, IP1), Forwarded(<<>>, IP2),
     Direct(IP1), Direct(IP2)}

\* The table holds one key of a configuration of KwSome, of an owner who
\* is active or not; no request has been received.
RequestInit ==
    /\ \E kw \in KwSome, g \in generate_key :
           store = db_insert(<<>>, save_prepare(APIKey(kw), g))
    /\ \E b \in BOOLEAN : user_active = [u \in Users |-> b]
    /\ now = 0
    /\ worker = [w \in Requests |-> Idle]
    /\ admin = [obj |-> NoRow, pc |-> "idle"]
    /\ issue = Saved(store[1].key)
    /\ mail = NoMail

\* The headers presented: none, "ApiKey", the well-formed header of each
\* secret of ks and of one no record has, and for the secrets of ks the
\* headers with a second token and with a byte that cannot be decoded.
RequestHeaders(ks) ==
    {None, Some(keyword)}
    \cup {ExactHeader(k) : k \in ks \cup {UnknownKeyOther}}
    \cup {UndecodableHeader(k) : k \in ks}
    \cup {Header(keyword, <<" ">>, k \o <<" ", "x">>) : k \in ks}

RequestNext ==
    \/ Tick
    \/ ServeHeader({1}, RequestHeaders({store[pk].key : pk \in 1..Len(store)}),
                   RequestMetas, Methods)

RequestSpec == RequestInit /\ [][RequestNext]_vars

\* --------------------------------------------------- keys left at defaults
\* A key is created with its owner alone.
CreateDefault == \E g \in generate_key : CreateKey(KwDefault, g, MaxKeys)

DefaultNext ==
    \/ Tick
    \/ CreateDefault
    \/ Serve({1, 2}, Metas, Methods)

DefaultSpec == Init /\ [][DefaultNext]_vars

\* ------------------------------------------------------- keys with a limit
\* max_requests_per_hour as a key is created with.
Limits == {None, Some(0), Some(1), Some(2)}

\* The usage earlier requests have left on a key: none, or n successful
\* authentications, the last of them at time 0.
Used(row, n) ==
    IF n = 0 THEN row
    ELSE [row EXCEPT !.request_count = n, !.last_used = Some(0)]

RateInit ==
    /\ \E m \in Limits, n \in 0..2, g \in generate_key :
           store = <<Used(db_insert(<<>>,
                            save_prepare(APIKey([user |-> "u1",
                                max_requests_per_hour |-> m]), g))[1], n)>>
    /\ user_active = [u \in Users |-> TRUE]
    /\ now = 0
    /\ worker = [w \in Requests |-> Idle]
    /\ admin = [obj |-> NoRow, pc |-> "idle"]
    /\ issue = Saved(store[1].key)
    /\ mail = NoMail

RateNext ==
    \/ Tick
    \/ Serve(Requests, {Direct(IP1)}, {"GET"})

RateSpec == RateInit /\ [][RateNext]_vars

\* --------------------------------------------------------- the mail service
MailUsers ==
    {[first_name |-> "Test", email |-> "test@example.com"],
     [first_name |-> "", email |-> "other@example.com"]}

RecipientLists ==
    {<<>>, <<"test@example.com">>, <<"test@example.com", "other@example.com">>}

\* A caller calls EmailService.send_email.
SendEmail(subject, message, recipient_list, from_email, backend) ==
    /\ Len(mail.calls) < MaxMail
    /\ LET r == send_email(subject, message, recipient_list, from_email,
                           backend)
       IN  mail' = [calls |-> Append(mail.calls,
                                [result |-> r.result,
                                 from_email |-> from_email,
                                 recipient_list |-> recipient_list,
                                 backend |-> backend,
                                 sent |-> r.sent, fn |-> "send_email"]),
                    outbox |-> mail.outbox \o r.sent]
    /\ UNCHANGED <<store, user_active, now, worker, admin, issue>>

\* A caller calls EmailService.send_welcome_email.
SendWelcomeEmail(user, backend) ==
    /\ Len(mail.calls) < MaxMail
    /\ LET r == send_welcome_email(user, backend)
       IN  mail' = [calls |-> Append(mail.calls,
                                [user |-> user,
                                 result |-> r.result,
                                 backend |-> backend,
                                 sent |-> r.sent,
                                 fn |-> "send_welcome_email"]),
                    outbox |-> mail.outbox \o r.sent]
    /\ UNCHANGED <<store, user_active, now, worker, admin, issue>>

MailNext ==
    \/ \E recipient_list \in RecipientLists,
          from_email \in {None, Some("sender@example.com")},
          backend \in Backends :
           SendEmail("Test Subject", <<"Test Message">>, recipient_list,
                     from_email, backend)
    \/ \E user \in MailUsers, backend \in Backends :
           SendWelcomeEmail(user, backend)

MailSpec == Init /\ [][MailNext]_vars

\* ------------------------------------------------------------ the claims
\* Vocabulary of the claims.
Rows == 1..Len(store)
RowsOf(key) == {pk \in Rows : store[pk].key = key}
Expired(row, t) == ~IsNone(row.expires_at) /\ Val(row.expires_at) < t
Usable(row, t) == row.is_active /\ ~Expired(row, t)
OwnerActive(row) == user_active[row.user]
\* The step of request w that runs the lookup and the checks.
Received(w) == worker[w].pc = "idle" /\ worker'[w].pc # "idle"
Passed(w) == worker[w].pc \in {"increment", "save"}
Succeeded(w) == worker[w].pc = "done" /\ worker[w].result.kind = "return"
FailedWith(w, msg) == worker[w].pc = "done" /\ worker[w].result = Failed(msg)

\* C1: a request presenting the secret of a key that is inactive, or whose
\* expires_at is set and earlier than the time of the check, ends in the
\* inactive/expired failure whatever its IP and method and the key's other
\* fields are; a principal is returned only by a request that passed the
\* checks and saved its usage.
C1_InvalidKeyNeverAuthenticates ==
    [][\A w \in Requests :
         /\ Received(w) =>
              \A pk \in RowsOf(worker'[w].key) :
                  ~store[pk].is_active \/ Expired(store[pk], now)
                  => /\ worker'[w].pc = "done"
                     /\ worker'[w].result = Failed(MsgInvalid)
         /\ worker'[w].pc = "increment" /\ worker[w].pc # "increment"
              => Received(w)
         /\ worker'[w].pc = "save" /\ worker[w].pc # "save"
              => worker[w].pc = "increment"
         /\ worker'[w].result.kind = "return" /\ worker[w].result.kind # "return"
              => worker[w].pc = "save"]_vars

\* An active key that expired before the check, with read permission and
\* no IP restriction, was presented with GET by its active owner's client
\* and refused as inactive or expired.
C1_Witness ==
    \E w \in Requests, pk \in Rows :
        /\ FailedWith(w, MsgInvalid)
        /\ store[pk].key = worker[w].key
        /\ store[pk].is_active /\ Expired(store[pk], worker[w].done_at)
        /\ store[pk].can_read /\ worker[w].method = "GET"
        /\ store[pk].allowed_ips = <<>> /\ OwnerActive(store[pk])

\* C5: the failure reported is that of the first failing check in the order
\* lookup, is_valid, owner active, IP allow-list, method permission, rate
\* limit: each failure is reported only when every earlier check passes,
\* so an IP, method or rate-limit failure is reported only for a key that
\* exists, is active and is not expired, and an inactive or expired key
\* gets the inactive/expired failure whatever the IP, method and flags are.
C5_FirstFailingCheck ==
    [][\A w \in Requests : Received(w) =>
         LET q == worker'[w]
             found == RowsOf(q.key)
             ip == get_client_ip(q.meta)
         IN  /\ found = {} <=> q.result = Failed(MsgNotFound)
             /\ \A pk \in found :
                  LET row == store[pk]
                      c1 == Usable(row, now)
                      c2 == OwnerActive(row)
                      c3 == is_ip_allowed(row, ip)
                      c4 == has_permission(row, q.method)
                  IN  /\ q.result = Failed(MsgInvalid) <=> ~c1
                      /\ q.result = Failed(MsgUserInactive) <=> c1 /\ ~c2
                      /\ q.result = Failed(MsgIP) <=> c1 /\ c2 /\ ~c3
                      /\ q.result = Failed(MsgMethod(q.method))
                           <=> c1 /\ c2 /\ c3 /\ ~c4
                      /\ q.result = Failed(MsgRate) => c1 /\ c2 /\ c3 /\ c4
                      /\ q.pc = "increment" => c1 /\ c2 /\ c3 /\ c4]_vars

\* An inactive key whose allow-list excludes the client and whose flags deny
\* the method, of an inactive owner, was refused as inactive or expired.
C5_Witness ==
    \E w \in Requests, pk \in Rows :
        /\ FailedWith(w, MsgInvalid)
        /\ store[pk].key = worker[w].key
        /\ ~store[pk].is_active /\ ~OwnerActive(store[pk])
        /\ ~is_ip_allowed(store[pk], get_client_ip(worker[w].meta))
        /\ ~has_permission(store[pk], worker[w].method)

\* C6: is_valid is false exactly when is_active is false or expires_at is
\* set and strictly earlier than the current time: an inactive key is
\* invalid whatever expires_at is, a key without expires_at never expires,
\* and a key whose expires_at is the current time is still valid.
C6_IsValid ==
    \A pk \in Rows :
        LET row == store[pk]
        IN  /\ is_valid(row, now)
                = (row.is_active
                   /\ (IsNone(row.expires_at) \/ Val(row.expires_at) >= now))
            /\ ~row.is_active => ~is_valid(row, now)
            /\ row.is_active /\ IsNone(row.expires_at) => is_valid(row, now)
            /\ row.is_active /\ row.expires_at = Some(now) => is_valid(row, now)

\* A request passed the checks at the very time its key expires.
C6_Witness ==
    \E w \in Requests :
        /\ Passed(w)
        /\ worker[w].api_key.expires_at = Some(now)
        /\ worker[w].done_at = now /\ now > 0

\* C7: has_permission depends on the method and the three flags only: GET
\* is gated by can_read, POST, PUT and PATCH by can_write, DELETE by
\* can_delete, and any other method is denied; a DELETE request with a key
\* whose can_delete is false never authenticates, and fails with the
\* method-not-permitted failure when the checks before the method check pass.
C7_HasPermission ==
    /\ \A pk \in Rows, m \in Methods :
          has_permission(store[pk], m)
            = \/ m = "GET" /\ store[pk].can_read
              \/ m \in {"POST", "PUT", "PATCH"} /\ store[pk].can_write
              \/ m = "DELETE" /\ store[pk].can_delete
    /\ \A w \in Requests, pk \in Rows :
          /\ worker[w].pc # "idle"
          /\ worker[w].method = "DELETE"
          /\ store[pk].key = worker[w].key
          /\ ~store[pk].can_delete
          => /\ worker[w].pc = "done"
             /\ worker[w].result.kind = "AuthenticationFailed"
             /\ Usable(store[pk], worker[w].done_at)
                /\ OwnerActive(store[pk])
                /\ is_ip_allowed(store[pk], get_client_ip(worker[w].meta))
                => worker[w].result = Failed(MsgMethod("DELETE"))

\* A usable key that may read and write but not delete, of an active owner,
\* was refused a DELETE request.
C7_Witness ==
    \E w \in Requests, pk \in Rows :
        /\ FailedWith(w, MsgMethod("DELETE"))
        /\ store[pk].key = worker[w].key
        /\ store[pk].can_read /\ store[pk].can_write /\ ~store[pk].can_delete

\* The entries of the allow-lists drawn, as a reader lists them.
ListedIPs(text) ==
    CASE text = AllowOne -> {IP1}
      [] text = AllowTwo -> {IP1, IP2}
      [] OTHER -> {}

\* C8: is_ip_allowed is true for every client IP when allowed_ips is empty,
\* and otherwise exactly when the client IP equals one entry of the list
\* (10.0.0.10 does not match the entry 10.0.0.1); a usable key of an active
\* owner restricted to 10.0.0.1 and used from 10.0.0.2 fails with the
\* IP-not-allowed failure.
C8_IsIPAllowed ==
    /\ \A pk \in Rows, ip \in {IP1, IP2, IP10} :
          is_ip_allowed(store[pk], Some(ip))
            = \/ store[pk].allowed_ips = <<>>
              \/ ip \in ListedIPs(store[pk].allowed_ips)
    /\ \A w \in Requests, pk \in Rows :
          /\ worker[w].pc # "idle"
          /\ store[pk].key = worker[w].key
          /\ store[pk].allowed_ips = AllowOne
          /\ get_client_ip(worker[w].meta) = Some(IP2)
          /\ Usable(store[pk], worker[w].done_at) /\ OwnerActive(store[pk])
          => FailedWith(w, MsgIP)

\* A key restricted to 10.0.0.1 was refused from 10.0.0.2, and a key
\* restricted to 10.0.0.1 and 10.0.0.2 would pass from 10.0.0.2.
C8_Witness ==
    \E w \in Requests, pk \in Rows :
        /\ FailedWith(w, MsgIP)
        /\ store[pk].key = worker[w].key
        /\ store[pk].allowed_ips = AllowOne
        /\ get_client_ip(worker[w].meta) = Some(IP2)

\* The successful authentications with key pk, and those of the trailing
\* hour at time t.
Successes(pk) ==
    {w \in Requests : Succeeded(w) /\ worker[w].result.api_key.pk = pk}
SuccessesWithin(pk, t) ==
    {w \in Successes(pk) : worker[w].done_at > t - OneHour}
InFlight(pk) == {w \in Requests : Passed(w) /\ worker[w].api_key.pk = pk}

\* C2: once the successful authentications with a key have all returned,
\* the stored request_count of the key, 0 at creation, is their number.
C2_NoLostUpdate ==
    \A pk \in Rows :
        InFlight(pk) = {} => store[pk].request_count = Cardinality(Successes(pk))

\* C3: the save of a request that passed the checks increases the stored
\* request_count by exactly 1, stores with it the last_used stamped by
\* increment_usage (the current time when it ran), and the request returns
\* the owner of the key with the key record.
C3_UsageUpdate ==
    [][\A w \in Requests :
         /\ worker[w].pc = "increment" /\ worker'[w].pc = "save"
              => worker'[w].api_key.last_used = Some(now)
         /\ worker[w].pc = "save" /\ worker'[w].pc = "done"
              => LET pk == worker[w].api_key.pk
                 IN  /\ store'[pk].request_count = store[pk].request_count + 1
                     /\ store'[pk].last_used = worker[w].api_key.last_used
                     /\ worker'[w].result.kind = "return"
                     /\ worker'[w].result.user.id = store[pk].user
                     /\ worker'[w].result.api_key.pk = pk
                     /\ worker'[w].result.api_key.key = worker[w].key]_vars

\* C4: a request with a key whose max_requests_per_hour is set is refused
\* with the rate-limit failure when the successful authentications with
\* that key in the trailing hour already number max_requests_per_hour, and
\* the successes of the trailing hour never exceed max_requests_per_hour.
C4_RateLimit ==
    [][/\ \A w \in Requests : Received(w) =>
            \A pk \in RowsOf(worker'[w].key) :
                /\ ~IsNone(store[pk].max_requests_per_hour)
                /\ Val(store[pk].max_requests_per_hour) > 0
                /\ Cardinality(SuccessesWithin(pk, now))
                     >= Val(store[pk].max_requests_per_hour)
                => worker'[w].result = Failed(MsgRate)
       /\ \A pk \in Rows :
            /\ ~IsNone(store[pk].max_requests_per_hour)
            /\ Val(store[pk].max_requests_per_hour) > 0
            => Cardinality(SuccessesWithin(pk, now)')
                 <= Val(store[pk].max_requests_per_hour)]_vars

\* C9: every stored key has prefix equal to the first 8 characters of its
\* secret, whether save() generated the secret or the caller supplied it.
C9_PrefixOfSecret ==
    \A pk \in Rows : store[pk].prefix = SliceTo(store[pk].key, PrefixLen)

\* C10: the secret of a key is set at its first save, generated by save()
\* when the caller gave none, and no later step (save, usage update,
\* authentication, deactivation, reactivation) changes the stored secret or
\* removes the record.
C10_SecretImmutable ==
    [][/\ Len(store') >= Len(store)
       /\ \A pk \in Rows : store'[pk].key = store[pk].key
       /\ \A pk \in 1..Len(store') :
            pk \notin Rows =>
                /\ store'[pk].key # <<>>
                /\ store'[pk].key \in generate_key \cup {SuppliedKey}]_vars

\* A key with a generated secret has authenticated a request and has been
\* deactivated by an admin save.
C10_Witness ==
    \E pk \in Rows :
        /\ store[pk].key \in generate_key
        /\ ~store[pk].is_active
        /\ \E w \in Requests : Succeeded(w) /\ worker[w].result.api_key.pk = pk
\* The secrets stored.
StoredKeys == {store[pk].key : pk \in Rows}

\* C11: no two stored records have the same secret and a lookup by secret
\* matches at most one record; a save of a new record whose secret equals
\* that of a stored record is refused with IntegrityError and leaves the
\* table as it was, and a save that adds a row adds a secret not stored
\* before.
C11_UniqueSecret ==
    /\ [](\A i \in Rows, j \in Rows : store[i].key = store[j].key => i = j)
    /\ [](\A k \in PresentedKeys : Cardinality(lookup(store, k)) <= 1)
    /\ [][(issue' # issue /\ issue'.key \in StoredKeys
              => issue'.kind = "IntegrityError" /\ store' = store)
           /\ (issue'.kind = "IntegrityError" /\ issue' # issue
              => issue'.key \in StoredKeys /\ store' = store)
           /\ (store' # store /\ Len(store') > Len(store)
              => /\ Len(store') = Len(store) + 1
                 /\ SubSeq(store', 1, Len(store)) = store
                 /\ store'[Len(store')].key \notin StoredKeys
                 /\ issue' = Saved(store'[Len(store')].key))]_vars

\* A save whose secret equals that of the stored record was refused, and
\* the table holds that one record.
C11_Witness ==
    /\ issue.kind = "IntegrityError"
    /\ Cardinality(lookup(store, issue.key)) = 1
    /\ Len(store) = 1
\* C12: no step lowers the stored request_count of a key: every write to
\* request_count stores a value at least the value stored before it.
C12_CountNeverDecreases ==
    [][\A pk \in Rows :
         store'[pk].request_count >= store[pk].request_count]_vars
\* The secrets a header can carry, and the header errors.
AllKeys == generate_key \cup {SuppliedKey, UnknownKey, UnknownKeyOther}
MalformedHeader ==
    {Failed(MsgNoCredentials), Failed(MsgSpaces), Failed(MsgInvalidCharacters)}

\* C13: a request whose header has the ApiKey scheme and no credential
\* token, more than one credential token, or a credential that cannot be
\* decoded ends at once in the header error of its case; a request that
\* ends in a header error has run no lookup and changed no record.
C13_MalformedHeader ==
    [][\A w \in Requests : Received(w) =>
         LET q == worker'[w]
         IN  /\ q.header \in NoCredentialHeaders
                 => q.result = Failed(MsgNoCredentials)
             /\ q.header \in UNION {TwoCredentialHeaders(k) : k \in AllKeys}
                 => q.result = Failed(MsgSpaces)
             /\ q.header \in {UndecodableHeader(k) : k \in AllKeys}
                 => q.result = Failed(MsgInvalidCharacters)
             /\ q.result \in MalformedHeader
                 => q.pc = "done" /\ q.lookups = 0 /\ store' = store]_vars

\* A header with the secret of the stored key followed by a second token
\* was refused without a lookup.
C13_Witness ==
    \E w \in Requests, pk \in Rows :
        /\ worker[w].header \in TwoCredentialHeaders(store[pk].key)
        /\ FailedWith(w, MsgSpaces)
        /\ worker[w].lookups = 0
        /\ store[pk].request_count = 0

\* C14: authenticate runs the key lookup only for a header made of the
\* scheme token ApiKey, one space and one credential token, and every
\* other header value ends in a header error.
C14_ExactHeaderOnly ==
    [][\A w \in Requests : Received(w) =>
         LET q == worker'[w]
             exact == \E k \in AllKeys : q.header = ExactHeader(k)
         IN  /\ q.lookups > 0 => exact
             /\ ~IsNone(q.header) /\ ~exact
                 => q.result \in MalformedHeader]_vars
\* The first 8 characters of secret k are the prefix of a stored key.
PrefixMatches(k) == \E pk \in Rows : store[pk].prefix = SliceTo(k, PrefixLen)

\* C15: a request whose secret equals no stored secret ends in the
\* invalid-credential failure, with the one message 'Invalid API key.', and
\* changes no record, whether or not the first 8 characters of the secret
\* are the prefix of a stored key.
C15_UnknownSecret ==
    [][\A w \in Requests : Received(w) =>
         LET q == worker'[w]
         IN  /\ q.lookups > 0 /\ RowsOf(q.key) = {}
                 => /\ q.pc = "done"
                    /\ q.result = Failed(MsgNotFound)
                    /\ store' = store
             /\ q.result = Failed(MsgNotFound)
                 => q.lookups > 0 /\ RowsOf(q.key) = {}]_vars

\* A secret that no record has, with the prefix of the stored key, was
\* refused as an invalid API key, and the secret with another prefix would
\* find no record either.
C15_Witness ==
    \E w \in Requests :
        /\ FailedWith(w, MsgNotFound)
        /\ PrefixMatches(worker[w].key)
        /\ ~PrefixMatches(UnknownKeyOther)
        /\ RowsOf(UnknownKeyOther) = {}
\* The failures of the checks after the lookup, and the reason of each.
PolicyFailures(m) ==
    {Failed(MsgInvalid), Failed(MsgUserInactive), Failed(MsgIP),
     Failed(MsgMethod(m)), Failed(MsgRate)}
Reason(result) ==
    CASE result = Failed(MsgInvalid) -> "inactive or expired"
      [] result = Failed(MsgUserInactive) -> "owner inactive"
      [] result = Failed(MsgIP) -> "IP not allowed"
      [] result = Failed(MsgRate) -> "rate limit"
      [] OTHER -> "method not permitted"

\* C16: the inactive/expired, owner-inactive, IP-not-allowed,
\* method-not-permitted and rate-limit failures carry one and the same
\* message to the client: the message of a request refused by one of these
\* checks is the message that a request refused for another of these
\* reasons gets with the same key.
C16_GenericMessage ==
    \A w \in Requests, pk \in Rows, meta \in Metas, m \in Methods :
        /\ worker[w].pc = "done"
        /\ worker[w].result \in PolicyFailures(worker[w].method)
        /\ store[pk].key = worker[w].key
        => LET usr == [is_active |-> OwnerActive(store[pk]), id |-> store[pk].user]
               other == credential_checks(store[pk], usr, meta, m,
                                          worker[w].done_at)
           IN  /\ other \in PolicyFailures(m)
               /\ Reason(other) # Reason(worker[w].result)
               => other.detail = worker[w].result.detail
\* C17: a request with the secret of a key that is active and not expired
\* but whose owner is inactive ends in the owner-inactive failure whatever
\* its client IP, its method and the key's flags are, with the record
\* unchanged; no request passes the checks or returns a principal for an
\* inactive owner.
C17_OwnerInactive ==
    /\ [](\A w \in Requests :
             Passed(w) \/ Succeeded(w) => user_active[worker[w].user.id])
    /\ [][\A w \in Requests : Received(w) =>
             \A pk \in RowsOf(worker'[w].key) :
                 Usable(store[pk], now) /\ ~OwnerActive(store[pk])
                 => /\ worker'[w].pc = "done"
                    /\ worker'[w].result = Failed(MsgUserInactive)
                    /\ store' = store]_vars

\* A usable key of an inactive owner, whose allow-list excludes the client
\* and whose flags deny the method, was refused for the owner, and its
\* usage is as it was at creation.
C17_Witness ==
    \E w \in Requests, pk \in Rows :
        /\ FailedWith(w, MsgUserInactive)
        /\ store[pk].key = worker[w].key
        /\ ~is_ip_allowed(store[pk], get_client_ip(worker[w].meta))
        /\ ~has_permission(store[pk], worker[w].method)
        /\ store[pk].request_count = 0 /\ IsNone(store[pk].last_used)
\* C18: when the token phase accepts the token of a request,
\* CombinedAuthentication returns the pair (user, token) of the token phase
\* at once: the API-key phase does not run, no key is looked up and no
\* record is changed.
C18_TokenSuccessReturns ==
    [][\A w \in Requests : Received(w) =>
         LET q == worker'[w]
         IN  \A k \in AllKeys :
                 q.header = BearerHeader(k) /\ q.jwt = "valid"
                 => /\ q.pc = "done"
                    /\ q.result = ReturnedToken(TokenUser, k)
                    /\ q.lookups = 0
                    /\ store' = store]_vars

\* A request whose accepted token is spelled like the secret of the stored
\* key returned the pair of the token phase and left the key unused.
C18_Witness ==
    \E w \in Requests, pk \in Rows :
        /\ worker[w].header = BearerHeader(store[pk].key)
        /\ worker[w].pc = "done"
        /\ worker[w].result = ReturnedToken(TokenUser, store[pk].key)
        /\ worker[w].lookups = 0
        /\ store[pk].request_count = 0 /\ IsNone(store[pk].last_used)

\* C19: when the token phase raises AuthenticationFailed, the outcome of
\* the request is the outcome of the API-key phase for its header (the
\* lookup is run, a header error is raised, or None is returned) and never
\* the error of the token phase.
C19_TokenFailureNotSurfaced ==
    [][\A w \in Requests : Received(w) =>
         LET q == worker'[w]
             token == JWTAuthentication(q.header, q.jwt)
             api_key == authenticate(q.header)
         IN  token.kind = "AuthenticationFailed"
             => /\ q.result # token
                /\ IF api_key.kind = "credentials"
                   THEN q.lookups = 1
                   ELSE q.pc = "done" /\ q.result = api_key]_vars
\* A key as created for the round trip: secret generated by save(), no
\* expiry, no IP restriction, no rate limit, owner active.
FreshDefault(row) ==
    /\ row.key \in generate_key
    /\ row.is_active /\ IsNone(row.expires_at)
    /\ row.allowed_ips = <<>>
    /\ IsNone(row.max_requests_per_hour)
    /\ OwnerActive(row)

\* C20: round trip. The one request that presents, in a well-formed
\* header, the secret of a key just created with the defaults, with a
\* method the flags of the key allow, passes the checks; when it has
\* returned it has returned the owner of the key with the key, and the
\* stored request_count is 1.
C20_RoundTrip ==
    /\ [](\A w \in Requests, pk \in Rows :
             /\ FreshDefault(store[pk])
             /\ worker[w].header = ExactHeader(store[pk].key)
             /\ has_permission(store[pk], worker[w].method)
             => /\ worker[w].result.kind # "AuthenticationFailed"
                /\ worker[w].pc = "done"
                    => /\ Succeeded(w)
                       /\ worker[w].result.user.id = store[pk].user
                       /\ worker[w].result.api_key.key = store[pk].key
                       /\ store[pk].request_count = 1)
    /\ [][\A w \in Requests, pk \in Rows :
             /\ Received(w)
             /\ FreshDefault(store[pk]) /\ store[pk].request_count = 0
             /\ worker'[w].header = ExactHeader(store[pk].key)
             /\ has_permission(store[pk], worker'[w].method)
             => worker'[w].pc = "increment"]_vars

\* The request made with the secret of the key just created has returned
\* the owner, and the stored request_count is 1.
C20_Witness ==
    \E w \in Requests, pk \in Rows :
        /\ FreshDefault(store[pk])
        /\ worker[w].header = ExactHeader(store[pk].key)
        /\ Succeeded(w)
        /\ worker[w].result.user.id = store[pk].user
        /\ store[pk].request_count = 1
\* The step in which the admin change form is saved.
AdminSaved == admin.pc = "form" /\ admin'.pc = "idle"

\* C21: deactivation is reversible. A save of the admin form, which sets
\* is_active to false or back to true, leaves the secret, the prefix and
\* the request_count of every key as they were before the save; a request
\* with the secret of an inactive key fails, and a request with the secret
\* of an active key passes the validity check.
C21_DeactivationReversible ==
    [][/\ AdminSaved =>
            \A pk \in Rows :
                /\ store'[pk].key = store[pk].key
                /\ store'[pk].prefix = store[pk].prefix
                /\ store'[pk].request_count = store[pk].request_count
       /\ \A w \in Requests : Received(w) =>
            \A pk \in RowsOf(worker'[w].key) :
                /\ ~store[pk].is_active
                     => worker'[w].result = Failed(MsgInvalid)
                /\ store[pk].is_active
                     => worker'[w].result # Failed(MsgInvalid)]_vars
\* The request has met a database error.
StoreFailed(w) == worker[w].db_errors > 0

\* C22: fail closed. A request whose lookup or usage update meets a
\* database error ends, in that step, with the exception as its outcome:
\* it returns no principal then or later, has run the lookup once, and
\* the step leaves every record, request_count and last_used included,
\* as it was.
C22_FailClosed ==
    /\ [](\A w \in Requests :
             StoreFailed(w)
             => /\ worker[w].pc = "done"
                /\ worker[w].result.kind = "raise"
                /\ worker[w].lookups = 1)
    /\ [][\A w \in Requests :
             /\ StoreFailed(w)' /\ ~StoreFailed(w)
                 => /\ worker[w].pc \in {"idle", "save"}
                    /\ worker'[w].result.kind = "raise"
                    /\ store' = store
             /\ StoreFailed(w) => worker'[w] = worker[w]]_vars

\* The usage update of a request that passed the checks met a database
\* error: the request ended in the exception and the key is unused.
C22_Witness ==
    \E w \in Requests, pk \in Rows :
        /\ StoreFailed(w)
        /\ worker[w].result.kind = "raise"
        /\ worker[w].result.during = "save"
        /\ store[pk].key = worker[w].key
        /\ store[pk].request_count = 0 /\ IsNone(store[pk].last_used)
\* The 62 symbols A-Z, a-z, 0-9.
Symbols ==
    {"A","B","C","D","E","F","G","H","I","J","K","L","M",
     "N","O","P","Q","R","S","T","U","V","W","X","Y","Z"}
    \cup {"a","b","c","d","e","f","g","h","i","j","k","l","m",
          "n","o","p","q","r","s","t","u","v","w","x","y","z"}
    \cup {"0","1","2","3","4","5","6","7","8","9"}
WellFormedSecret(k) == Len(k) = KeyLen /\ \A i \in 1..Len(k) : k[i] \in Symbols

\* C23: every secret generate_key produces has length 64 and only
\* characters of the alphabet A-Z, a-z, 0-9, which has 62 symbols; an
\* instance saved without a secret gets such a secret and the prefix made
\* of its first 8 characters, and so has every stored record whose secret
\* no caller supplied.
C23_GeneratedSecret ==
    /\ {Alphabet[i] : i \in 1..Len(Alphabet)} = Symbols
    /\ Cardinality(Symbols) = Len(Alphabet)
    /\ \A g \in generate_key : WellFormedSecret(g)
    /\ \A kw \in KwGenerated, g \in generate_key :
          LET obj == save_prepare(APIKey(kw), g)
          IN  /\ obj.key = g
              /\ obj.prefix = SubSeq(g, 1, PrefixLen)
    /\ \A pk \in Rows :
          store[pk].key # SuppliedKey
          => /\ WellFormedSecret(store[pk].key)
             /\ Len(store[pk].prefix) = PrefixLen
             /\ \A i \in 1..PrefixLen : store[pk].prefix[i] = store[pk].key[i]

\* Two records saved without a secret are stored, each with a generated
\* secret and its prefix.
C23_Witness ==
    /\ Len(store) = 2
    /\ \A pk \in Rows :
          store[pk].key \in generate_key /\ store[pk].prefix # <<>>
    /\ issue = Saved(store[2].key)
\* The request has ended without a principal: None returned or
\* AuthenticationFailed raised.
Refused(w) ==
    /\ worker[w].pc = "done"
    /\ worker[w].result.kind \in {"return None", "AuthenticationFailed"}
\* A check fails for a request with META meta and method method that
\* presents the secret of row at time t.
CheckFails(row, meta, method, t) ==
    \/ ~Usable(row, t)
    \/ ~OwnerActive(row)
    \/ ~is_ip_allowed(row, get_client_ip(meta))
    \/ ~has_permission(row, method)
\* Rows pk of two tables are equal but for request_count and last_used.
SameButUsage(a, b) ==
    [a EXCEPT !.request_count = 0, !.last_used = None]
        = [b EXCEPT !.request_count = 0, !.last_used = None]

FirstHop(text) ==
    LET commas == {i \in 1..Len(text) : text[i] = ","}
    IN  IF commas = {} THEN text
        ELSE SubSeq(text, 1, (CHOOSE i \in commas : \A j \in commas : i <= j) - 1)

\* C25: get_client_ip returns the first comma-separated element of
\* X-Forwarded-For when the header is present and not empty, and
\* REMOTE_ADDR otherwise; the allow-list is checked on that value: with a
\* usable key of an active owner restricted to 10.0.0.1, a request whose
\* first forwarded hop is 10.0.0.1 is not refused for its IP whatever its
\* connection address is, and a request whose first hop is another address
\* is refused for its IP although it connects from 10.0.0.1.
C25_ClientIP ==
    /\ [](\A meta \in RequestMetas :
             get_client_ip(meta)
               = IF ~IsNone(meta.xff) /\ Len(Val(meta.xff)) > 0
                 THEN Some(FirstHop(Val(meta.xff)))
                 ELSE meta.remote)
    /\ [][\A w \in Requests : Received(w) =>
             \A pk \in RowsOf(worker'[w].key) :
                 /\ Usable(store[pk], now) /\ OwnerActive(store[pk])
                 /\ store[pk].allowed_ips = AllowOne
                 /\ ~IsNone(worker'[w].meta.xff)
                 /\ Val(worker'[w].meta.xff) # <<>>
                 => IF FirstHop(Val(worker'[w].meta.xff)) = IP1
                    THEN worker'[w].result # Failed(MsgIP)
                    ELSE worker'[w].result = Failed(MsgIP)]_vars

\* A request that connects from 10.0.0.10 with X-Forwarded-For
\* "10.0.0.1,10.0.0.2" passed the checks of a key restricted to 10.0.0.1.
C25_Witness ==
    \E w \in Requests, pk \in Rows :
        /\ Passed(w)
        /\ worker[w].api_key.pk = pk
        /\ store[pk].allowed_ips = AllowOne
        /\ worker[w].meta = Forwarded(IP1 \o <<",">> \o IP2, IP10)
\* C26: EmailService.send_email reports delivery errors as a value: no call
\* raises, a call returns True when the backend call completes and False
\* when the backend raises an exception, and in that case nothing is
\* delivered; send_welcome_email returns what send_email returns for the
\* welcome message addressed to the user's email alone, sent from the
\* default sender.
C26_DeliveryErrorsAsValue ==
    \A i \in 1..Len(mail.calls) :
        LET c == mail.calls[i]
        IN  /\ c.result.kind = "return"
            /\ (c.backend = "ok" => c.result.value = TRUE)
            /\ (c.fn = "send_email" /\ c.recipient_list = <<>>
                 => c.result.value = TRUE)
            /\ (c.backend \in Exception /\ c.fn = "send_welcome_email"
                 => c.result.value = FALSE /\ c.sent = <<>>)
            /\ (c.backend \in Exception /\ c.fn = "send_email"
                 /\ c.recipient_list # <<>>
                 => c.result.value = FALSE /\ c.sent = <<>>)
            /\ (c.fn = "send_welcome_email" /\ c.backend = "ok"
                 => c.sent = <<[subject |-> "Welcome to our platform!",
                               message |-> WelcomeMessage(c.user),
                               from_email |-> DEFAULT_FROM_EMAIL,
                               to |-> <<c.user.email>>]>>)

\* send_email returned False for a backend that raised, and
\* send_welcome_email returned True for a delivered welcome message.
C26_Witness ==
    \E i, j \in 1..Len(mail.calls) :
        /\ mail.calls[i].fn = "send_email"
        /\ mail.calls[i].backend \in Exception
        /\ mail.calls[i].result = [kind |-> "return", value |-> FALSE]
        /\ mail.calls[j].fn = "send_welcome_email"
        /\ mail.calls[j].result = [kind |-> "return", value |-> TRUE]
        /\ Len(mail.calls[j].sent) = 1
C28_LastUsedMonotonic ==
    [][\A pk \in Rows :
          ~IsNone(store[pk].last_used)
          => /\ ~IsNone(store'[pk].last_used)
             /\ Val(store'[pk].last_used) >= Val(store[pk].last_used)]_vars
\* C29: the usage update of a successful authentication writes only
\* request_count and last_used: the save of a request changes no other
\* column of any row, and it leaves a stored is_active that differs from
\* the one of the object the request has loaded (an administrative change
\* committed between the lookup and the save) as it is stored.
C29_UsageUpdateFrame ==
    [][\A w \in Requests :
          worker[w].pc = "save" /\ worker'[w].pc = "done"
          => /\ \A pk \in Rows : SameButUsage(store[pk], store'[pk])
             /\ \A pk \in Rows :
                   pk = worker[w].api_key.pk
                   => /\ store'[pk].is_active = store[pk].is_active
                      /\ store'[pk].request_count
                           = worker[w].api_key.request_count
                      /\ store'[pk].last_used = worker[w].api_key.last_used]_vars

\* A request has returned a principal from an object it loaded as active and
\* has stored its usage, while the stored key is inactive.
C29_Witness ==
    \E w \in Requests, pk \in Rows :
        /\ Succeeded(w)
        /\ worker[w].result.api_key.pk = pk
        /\ worker[w].result.api_key.is_active
        /\ ~store[pk].is_active
        /\ store[pk].request_count = worker[w].result.api_key.request_count
        /\ store[pk].last_used = worker[w].result.api_key.last_used
\* C30: a key created with its owner alone is active, read-only and
\* unrestricted (is_active, can_read, not can_write, not can_delete, no
\* expiry, no IP restriction, no rate limit, request_count 0 until it is
\* used), and is stored so; a request with its secret, its owner active,
\* passes the checks with GET from any address and is refused with the
\* method-not-permitted failure with POST, PUT, PATCH and DELETE.
C30_DefaultKey ==
    /\ [](LET row == APIKey(KwDefault)
          IN  row.request_count = 0 /\ IsNone(row.last_used))
    /\ [](\A pk \in Rows :
             /\ store[pk].is_active /\ store[pk].can_read
             /\ ~store[pk].can_write /\ ~store[pk].can_delete
             /\ IsNone(store[pk].expires_at)
             /\ store[pk].allowed_ips = <<>>
             /\ IsNone(store[pk].max_requests_per_hour)
             /\ (IsNone(store[pk].last_used) => store[pk].request_count = 0))
    /\ [][\A w \in Requests : Received(w) =>
             \A pk \in RowsOf(worker'[w].key) :
                 OwnerActive(store[pk])
                 => /\ (worker'[w].method = "GET"
                         => worker'[w].pc = "increment")
                    /\ (worker'[w].method \in {"POST", "PUT", "PATCH", "DELETE"}
                         => worker'[w].result
                              = Failed(MsgMethod(worker'[w].method)))]_vars

\* Of two requests with the secret of a key created with its owner alone,
\* the GET from 10.0.0.10 has returned a principal and the DELETE has been
\* refused with the method-not-permitted failure.
C30_Witness ==
    \E w, v \in Requests :
        /\ Succeeded(w)
        /\ worker[w].method = "GET"
        /\ worker[w].meta = Direct(IP10)
        /\ FailedWith(v, MsgMethod("DELETE"))
        /\ worker[v].key = worker[w].key
====
